---- MODULE Spec2Model ----
(***************************************************************************)
(* bdfe: BDF font exporter.  Model of main() in src/main.c (argument loop, *)
(* conversion call, display preview, cleanup) and of the GlyphCollector    *)
(* state machine of the conversion engine, which main() reaches through    *)
(* bdf_convert (declared in bdf.h; described in spec.md section 4.2).       *)
(*                                                                         *)
(* Command-line words are sequences of one-character strings, so that      *)
(* strcmp, isdigit, isxdigit, atoi and strtoul act on characters.          *)
(* argv is the sequence argv[1..argc-1]; argv[argc] is the NULL entry.     *)
(* 32-bit unsigned values are records [hi, lo] of two 16-bit halves.       *)
(***************************************************************************)
EXTENDS Integers, Sequences, FiniteSets, TLC

VARIABLES
    pc,          \* position in main: start, args, convert, open, prompt, loop, exit, done, crashed
    argv,        \* argv[1..argc-1]
    i,           \* loop index of the argument loop
    flags,       \* set of flag bits OR-ed into flags
    i2c_address, \* uint8_t i2c_address
    orientation, \* uint8_t orientation
    ascender,    \* unsigned ascender
    gmin, gmax,  \* unsigned gmin, gmax
    inspected,   \* indices k whose argv[k] has been dereferenced
    passed,      \* arguments handed to bdf_convert, or NULL
    font,        \* bdfe_t *font: NULL or the converted font
    of,          \* ossd_font_t of, or NULL while unset
    gidx,        \* uint32_t gidx
    drawn,       \* glyph indices handed to ossd_putlx by the preview loop, in order
    screens,     \* screenfuls drawn
    keyWaits,    \* calls of stdin_getch
    quit,        \* 'q' was read
    calls,       \* external calls made so far (names)
    selected,    \* address given to pi2c_select, or NULL
    bus,         \* I2C bus: closed, open
    opens, closes, \* successful pi2c_open calls, pi2c_close calls
    term,        \* terminal mode: can, raw
    wasRaw,      \* stdin_mode(TERM_MODE_RAW) has been called
    frees,       \* calls of free(font)
    useAfterFree,\* font was read after free
    ret,         \* return value of main, or NULL while running
    reported,    \* messages written to stderr / usage
    cstate,      \* GlyphCollector state: Header, InGlyph, ReadingRows
    input,       \* scanner records consumed so far
    cur,         \* glyph being collected
    emitted,     \* glyphs emitted so far
    eof,         \* end of input reached
    cresult      \* none, MalformedInput, collected

mainVars == <<pc, argv, i, flags, i2c_address, orientation, ascender, gmin, gmax,
              inspected, passed, font, of, gidx, drawn, screens, keyWaits, quit,
              calls, selected, bus, opens, closes, term, wasRaw, frees,
              useAfterFree, ret, reported>>
collVars == <<cstate, input, cur, emitted, eof, cresult>>
vars == <<mainVars, collVars>>


\* ---------------------------------------------------------------- bounds
MaxArgs == 3
MaxGlyphs == 256
MaxRecords == 7

\* ------------------------------------------------------ 32-bit unsigned
Half == 256 * 256
U32(n) == [hi |-> n \div Half, lo |-> n % Half]
U32Max == [hi |-> Half - 1, lo |-> Half - 1]
U32Lt(a, b) == a.hi < b.hi \/ (a.hi = b.hi /\ a.lo < b.lo)
U32Le(a, b) == a = b \/ U32Lt(a, b)
\* a * base + d, modulo 2^32
U32MulAdd(a, base, d) ==
    LET l == a.lo * base + d
        h == a.hi * base + (l \div Half)
    IN  [hi |-> h % Half, lo |-> l % Half]
\* two's complement negation, modulo 2^32
U32Neg(a) ==
    IF a.lo = 0 THEN [hi |-> (Half - a.hi) % Half, lo |-> 0]
    ELSE [hi |-> Half - 1 - a.hi, lo |-> Half - a.lo]
\* (uint8_t) cast
U8(a) == a.lo % 256

\* ------------------------------------------------------------ characters
DecDigits == <<"0", "1", "2", "3", "4", "5", "6", "7", "8", "9">>
HexLower == <<"a", "b", "c", "d", "e", "f">>
HexUpper == <<"A", "B", "C", "D", "E", "F">>
Range(s) == {s[k] : k \in DOMAIN s}
IndexOf(s, c) == CHOOSE k \in DOMAIN s : s[k] = c

isdigit(c) == c \in Range(DecDigits)
isxdigit(c) == c \in Range(DecDigits) \cup Range(HexLower) \cup Range(HexUpper)
isspace(c) == c = " "

DigitVal(c) ==
    IF c \in Range(DecDigits) THEN IndexOf(DecDigits, c) - 1
    ELSE IF c \in Range(HexLower) THEN IndexOf(HexLower, c) + 9
    ELSE IF c \in Range(HexUpper) THEN IndexOf(HexUpper, c) + 9
    ELSE 99

\* character at position p of word w; NUL is the string terminator
NUL == "NUL"
CharAt(w, p) == IF p \in DOMAIN w THEN w[p] ELSE NUL
FirstChar(w) == CharAt(w, 1)

RECURSIVE SkipSpace(_, _)
SkipSpace(w, p) == IF isspace(CharAt(w, p)) THEN SkipSpace(w, p + 1) ELSE p

RECURSIVE Digits(_, _, _, _)
\* accumulate the digits of the given base from position p on: [val, end]
Digits(w, p, base, acc) ==
    IF DigitVal(CharAt(w, p)) < base
    THEN Digits(w, p + 1, base, U32MulAdd(acc, base, DigitVal(CharAt(w, p))))
    ELSE [val |-> acc, end |-> p]

\* strtoul(w + from - 1, &end, base), the result truncated to 32 bits;
\* end is the position of the first character not converted (from when
\* nothing was converted).
strtoul(w, from, base) ==
    LET s == SkipSpace(w, from)
        neg == CharAt(w, s) = "-"
        t == IF CharAt(w, s) \in {"-", "+"} THEN s + 1 ELSE s
        x == IF /\ base = 16
                /\ CharAt(w, t) = "0"
                /\ CharAt(w, t + 1) \in {"x", "X"}
                /\ DigitVal(CharAt(w, t + 2)) < 16
             THEN t + 2 ELSE t
        r == Digits(w, x, base, U32(0))
    IN  IF r.end = x
        THEN [val |-> U32(0), end |-> from]
        ELSE [val |-> IF neg THEN U32Neg(r.val) ELSE r.val, end |-> r.end]

\* atoi(w) stored in an unsigned
atoi(w) == strtoul(w, 1, 10).val

\* ------------------------------------------------------------ the words
Opt_help == <<"-", "?">>
Word_help == <<"h", "e", "l", "p">>
Opt_h == <<"-", "h">>
Word_header == <<"h", "e", "a", "d", "e", "r">>
Opt_v == <<"-", "v">>
Word_verbose == <<"v", "e", "r", "b", "o", "s", "e">>
Opt_a == <<"-", "a">>
Word_ascender == <<"a", "s", "c", "e", "n", "d", "e", "r">>
Opt_l == <<"-", "l">>
Word_line == <<"l", "i", "n", "e">>
Opt_s == <<"-", "s">>
Word_subset == <<"s", "u", "b", "s", "e", "t">>
Word_all == <<"a", "l", "l">>
Opt_n == <<"-", "n">>
Word_native == <<"n", "a", "t", "i", "v", "e">>
Opt_r == <<"-", "r">>
Word_rotate == <<"r", "o", "t", "a", "t", "e">>
Opt_d == <<"-", "d">>
Word_display == <<"d", "i", "s", "p", "l", "a", "y">>
Opt_u == <<"-", "u">>
Word_updown == <<"u", "p", "d", "o", "w", "n">>
Opt_f == <<"-", "f">>
Word_flip == <<"f", "l", "i", "p">>
Word_droplast == <<"d", "r", "o", "p", "l", "a", "s", "t">>

OptionWords ==
    {Opt_help, Word_help, Opt_h, Word_header, Opt_v, Word_verbose, Opt_a,
     Word_ascender, Opt_l, Word_line, Opt_s, Word_subset, Word_all, Opt_n,
     Word_native, Opt_r, Word_rotate, Opt_d, Word_display, Opt_u, Word_updown,
     Opt_f, Word_flip, Word_droplast}

\* static int arg_is(const char *arg, const char *sarg, const char *larg)
\* (sarg and larg are non-null at every call site)
arg_is(arg, sarg, larg) ==
    IF arg = sarg THEN TRUE
    ELSE IF arg = larg THEN TRUE
    ELSE FALSE

\* program constants
DefaultAddress == 60
DefaultGmin == 32
DefaultGmax == 126
AddressLimit == 120
ScreenLines == 8
ScreenWidth == 128

argc == Len(argv) + 1

\* ------------------------------------------------- the argument loop body
\* Reading argv[argc] dereferences the NULL entry: the run either stops
\* (SIGSEGV) or reads whatever the address holds, here a word g.
Crash == <<"SIGSEGV">>
NullReads == {Crash, <<>>, <<"7">>}
ArgAt(k, g) == IF k \in DOMAIN argv THEN argv[k] ELSE g

\* the locals of main the loop works on
Locals ==
    [i |-> i, flags |-> flags, ascender |-> ascender, gmin |-> gmin,
     gmax |-> gmax, i2c_address |-> i2c_address, orientation |-> orientation,
     inspected |-> inspected]

\* the characters of argv[k] are read
Look(s, k) == [s EXCEPT !.inspected = @ \cup {k}]

\* if (arg_is(argv[i], sarg, larg)) flags |= bit;
SetFlag(s, g, sarg, larg, bit) ==
    IF arg_is(ArgAt(s.i, g), sarg, larg)
    THEN [Look(s, s.i) EXCEPT !.flags = @ \cup {bit}]
    ELSE Look(s, s.i)

\* lines 107-110
OptAscender(s, g) ==
    IF arg_is(ArgAt(s.i, g), Opt_a, Word_ascender)
    THEN IF s.i < argc
         THEN IF isdigit(FirstChar(ArgAt(s.i + 1, g)))
              THEN [Look(Look(s, s.i), s.i + 1) EXCEPT
                       !.i = s.i + 1,
                       !.ascender = atoi(ArgAt(s.i + 1, g))]
              ELSE Look(Look(s, s.i), s.i + 1)
         ELSE Look(s, s.i)
    ELSE Look(s, s.i)

\* variant: the bounds are not swapped
SubsetRangeNoSwap(w) ==
    LET a == strtoul(w, 1, 10)
        b == IF CharAt(w, a.end) = "-" THEN strtoul(w, a.end + 1, 10).val
             ELSE a.val
    IN  [gmin |-> a.val, gmax |-> b]

\* lines 118-127: the range read from the word following subset
SubsetRange(w) ==
    LET a == strtoul(w, 1, 10)
        b == IF CharAt(w, a.end) = "-" THEN strtoul(w, a.end + 1, 10).val
             ELSE a.val
    IN  IF U32Lt(b, a.val) THEN [gmin |-> b, gmax |-> a.val]
        ELSE [gmin |-> a.val, gmax |-> b]

\* lines 115-129
OptSubset(s, g) ==
    IF arg_is(ArgAt(s.i, g), Opt_s, Word_subset)
    THEN IF s.i < argc
         THEN IF isdigit(FirstChar(ArgAt(s.i + 1, g)))
              THEN [Look(Look(s, s.i), s.i + 1) EXCEPT
                       !.i = s.i + 1,
                       !.gmin = SubsetRange(ArgAt(s.i + 1, g)).gmin,
                       !.gmax = SubsetRange(ArgAt(s.i + 1, g)).gmax]
              ELSE Look(Look(s, s.i), s.i + 1)
         ELSE Look(s, s.i)
    ELSE Look(s, s.i)

\* lines 131-134
OptAll(s, g) ==
    IF arg_is(ArgAt(s.i, g), Opt_a, Word_all)
    THEN [Look(s, s.i) EXCEPT !.gmin = U32(0), !.gmax = U32Max]
    ELSE Look(s, s.i)

\* lines 146-148: the address read from the word following display
DisplayAddress(w, old) ==
    LET i2ca == strtoul(w, 1, 16).val
    IN  IF i2ca # U32(0) /\ U32Lt(i2ca, U32(AddressLimit)) THEN U8(i2ca) ELSE old

\* lines 142-150
OptDisplay(s, g) ==
    IF arg_is(ArgAt(s.i, g), Opt_d, Word_display)
    THEN LET t == [Look(s, s.i) EXCEPT !.flags = @ \cup {"DISPLAY_FONT"}]
         IN  IF s.i < argc
             THEN IF isxdigit(FirstChar(ArgAt(s.i + 1, g)))
                  THEN [Look(t, s.i + 1) EXCEPT
                           !.i = s.i + 1,
                           !.i2c_address =
                               DisplayAddress(ArgAt(s.i + 1, g), s.i2c_address)]
                  ELSE Look(t, s.i + 1)
             ELSE t
    ELSE Look(s, s.i)

\* lines 152-153
OptUpdown(s, g) ==
    IF arg_is(ArgAt(s.i, g), Opt_u, Word_updown)
    THEN [Look(s, s.i) EXCEPT !.orientation = {"OSSD_UPDOWN"}]
    ELSE Look(s, s.i)

\* lines 101-159: one pass through the body of the loop, after the help
\* test; S1..S11 hold the locals after each if statement in turn
LoopBody(s, g) ==
    LET S1 == {SetFlag(x, g, Opt_h, Word_header, "BDF_HEADER") : x \in {s}}
        S2 == {SetFlag(x, g, Opt_v, Word_verbose, "BDF_VERBOSE") : x \in S1}
        S3 == {OptAscender(x, g) : x \in S2}
        S4 == {SetFlag(x, g, Opt_l, Word_line, "BDF_GPL") : x \in S3}
        S5 == {OptSubset(x, g) : x \in S4}
        S6 == {OptAll(x, g) : x \in S5}
        S7 == {SetFlag(x, g, Opt_n, Word_native, "BDF_NATIVE") : x \in S6}
        S8 == {SetFlag(x, g, Opt_r, Word_rotate, "BDF_ROTATE") : x \in S7}
        S9 == {OptDisplay(x, g) : x \in S8}
        S10 == {OptUpdown(x, g) : x \in S9}
        S11 == {SetFlag(x, g, Opt_f, Word_flip, "BDF_FLIP") : x \in S10}
    IN  CHOOSE r \in {SetFlag(x, g, Opt_l, Word_droplast, "BDF_DROPLAST") :
                         x \in S11} : TRUE

\* ------------------------------------------------------- the conversion
\* What the path argv[argc-1] holds when bdf_convert opens it.
NoFont == [valid |-> FALSE, gw |-> 0, bpg |-> 0, chars |-> 0, first |-> 0]
NoOf == [set |-> FALSE, gw |-> 0, gh |-> 0, go |-> 0, gn |-> 0]
NoArgs == [called |-> FALSE, file |-> <<>>, gmin |-> U32(0), gmax |-> U32(0),
           ascender |-> U32(0), flags |-> {}]
NoAddress == 0 - 1

FontSource(cps, gw, bpg) == [kind |-> "font", cps |-> cps, gw |-> gw, bpg |-> bpg]
Sources ==
    {[kind |-> "noent", cps |-> {}, gw |-> 0, bpg |-> 0],
     [kind |-> "malformed", cps |-> {}, gw |-> 0, bpg |-> 0],
     FontSource(65 .. 67, 8, 8),
     FontSource(0 .. (MaxGlyphs - 1), 8, 8),
     FontSource({65, 66, 67}, 128, 64),
     FontSource({40, 45, 300, 301, 302, 303, 304}, 64, 24)}

SetMin(S) == CHOOSE x \in S : \A y \in S : x <= y

\* SubsetFilter: retain(codepoint, min, max)
retain(c, lo, hi) == U32Le(lo, U32(c)) /\ U32Le(U32(c), hi)

\* bdf_convert(file, gmin, gmax, ascender, flags): the PackedFont summary
\* (glyph width, bytes per glyph, glyph count, first codepoint), or no font
\* when the source cannot be opened, is malformed, or no glyph is retained.
bdf_convert(src, lo, hi, asc, fl) ==
    IF src.kind # "font" THEN NoFont
    ELSE LET kept == {c \in src.cps : retain(c, lo, hi)}
         IN  IF kept = {} THEN NoFont
             ELSE [valid |-> TRUE, gw |-> src.gw, bpg |-> src.bpg,
                   chars |-> Cardinality(kept), first |-> SetMin(kept)]

\* ----------------------------------------------------------- the preview
\* glyphs drawn on one display line when gidx = g on entry
RowCount(g, gw, chars) ==
    IF chars - g < ScreenWidth \div gw
    THEN (IF chars > g THEN chars - g ELSE 0)
    ELSE ScreenWidth \div gw

RECURSIVE ScreenfulUnbounded(_, _, _, _, _)
\* variant: the inner loop does not stop at the last glyph
ScreenfulUnbounded(line, g, gh, gw, chars) ==
    IF line < ScreenLines /\ g < chars
    THEN CHOOSE page \in
             {[k \in 1 .. (ScreenWidth \div gw) |-> g0 + k - 1]
                  \o ScreenfulUnbounded(l0 + gh, g0 + (ScreenWidth \div gw), gh,
                                        gw, chars) :
              l0 \in {line}, g0 \in {g}} : TRUE
    ELSE <<>>

RECURSIVE Screenful(_, _, _, _, _)
\* lines 223-230: the glyph indices one pass of the two for loops hands to
\* ossd_putlx, starting at display line `line` with gidx = g
Screenful(line, g, gh, gw, chars) ==
    IF line < ScreenLines
    THEN CHOOSE page \in
             {[k \in 1 .. n |-> g0 + k - 1]
                  \o Screenful(l0 + gh, g0 + n, gh, gw, chars) :
              l0 \in {line}, g0 \in {g}, n \in {RowCount(g, gw, chars)}} : TRUE
    ELSE <<>>

\* ------------------------------------------------------------- main()
Words ==
    {Opt_help, Opt_a, Opt_l, Opt_s, Opt_d, Word_all, Word_flip,
     <<"5", "0", "-", "4", "0">>, <<"7", "-">>, <<"3", "C">>,
     <<"3", "0", "0", "-", "4", "0", "0">>,
     <<"x", ".", "b", "d", "f">>, <<"f", ".", "b", "d", "f">>}

ArgLists == UNION {[1 .. n -> Words] : n \in 0 .. MaxArgs}

CollIdle ==
    /\ cstate = "Header"
    /\ input = <<>>
    /\ cur = [start |-> 0, enc |-> FALSE, cp |-> 0, bbx |-> FALSE,
              bitmap |-> FALSE, rows |-> 0]
    /\ emitted = <<>>
    /\ eof = FALSE
    /\ cresult = "none"

MainInit ==
    /\ pc = "start"
    /\ i = 1
    /\ flags = {}
    /\ i2c_address = DefaultAddress
    /\ orientation = {}
    /\ gidx = 0
    /\ ascender = U32(0)
    /\ gmin = U32(DefaultGmin)
    /\ gmax = U32(DefaultGmax)
    /\ inspected = {}
    /\ passed = NoArgs
    /\ font = NoFont
    /\ of = NoOf
    /\ drawn = <<>>
    /\ screens = 0
    /\ keyWaits = 0
    /\ quit = FALSE
    /\ calls = {}
    /\ selected = NoAddress
    /\ bus = "closed"
    /\ opens = 0
    /\ closes = 0
    /\ term = "can"
    /\ wasRaw = FALSE
    /\ frees = 0
    /\ useAfterFree = FALSE
    /\ ret = 0
    /\ reported = {}

Init ==
    /\ argv \in ArgLists
    /\ MainInit
    /\ CollIdle

\* lines 90-95
Start ==
    /\ pc = "start"
    /\ IF argc < 2
       THEN /\ pc' = "done"
            /\ ret' = 0 - 1
            /\ reported' = reported \cup {"usage"}
       ELSE /\ pc' = "args"
            /\ UNCHANGED <<ret, reported>>
    /\ i' = 1
    /\ UNCHANGED <<argv, flags, i2c_address, orientation, ascender, gmin, gmax,
                   inspected, passed, font, of, gidx, drawn, screens, keyWaits,
                   quit, calls, selected, bus, opens, closes, term, wasRaw,
                   frees, useAfterFree>>
    /\ UNCHANGED collVars

\* lines 95-161: one iteration of the argument loop
ArgIter ==
    /\ pc = "args"
    /\ i < argc
    /\ IF arg_is(argv[i], Opt_help, Word_help)
       THEN /\ pc' = "done"
            /\ ret' = 0
            /\ reported' = reported \cup {"usage"}
            /\ inspected' = inspected \cup {i}
            /\ UNCHANGED <<i, flags, i2c_address, orientation, ascender, gmin,
                           gmax>>
       ELSE \E g \in NullReads :
                \E r \in {LoopBody(Locals, g)} :
                    IF argc \in r.inspected /\ g = Crash
                    THEN /\ pc' = "crashed"
                         /\ inspected' = r.inspected
                         /\ UNCHANGED <<i, flags, i2c_address, orientation,
                                        ascender, gmin, gmax, ret, reported>>
                    ELSE /\ i' = r.i + 1
                         /\ flags' = r.flags
                         /\ i2c_address' = r.i2c_address
                         /\ orientation' = r.orientation
                         /\ ascender' = r.ascender
                         /\ gmin' = r.gmin
                         /\ gmax' = r.gmax
                         /\ inspected' = r.inspected
                         /\ pc' = IF r.i + 1 < argc THEN "args" ELSE "convert"
                         /\ UNCHANGED <<ret, reported>>
    /\ UNCHANGED <<argv, passed, font, of, gidx, drawn, screens, keyWaits, quit,
                   calls, selected, bus, opens, closes, term, wasRaw, frees,
                   useAfterFree>>
    /\ UNCHANGED collVars

\* variant: a failed conversion is not detected
ConvertUnchecked ==
    /\ pc = "convert"
    /\ \E src \in Sources :
           LET file == argv[argc - 1]
               f == bdf_convert(src, gmin, gmax, ascender, flags)
           IN  /\ passed' = [called |-> TRUE, file |-> file, gmin |-> gmin,
                             gmax |-> gmax, ascender |-> ascender,
                             flags |-> flags]
               /\ font' = f
               /\ calls' = calls \cup {"bdf_convert"}
               /\ IF "DISPLAY_FONT" \notin flags
                  THEN /\ frees' = frees + 1
                       /\ ret' = 0
                       /\ pc' = "done"
                       /\ UNCHANGED reported
                  ELSE /\ pc' = "open"
                       /\ UNCHANGED <<frees, ret, reported>>
    /\ UNCHANGED <<argv, i, flags, i2c_address, orientation, ascender, gmin,
                   gmax, inspected, of, gidx, drawn, screens, keyWaits, quit,
                   selected, bus, opens, closes, term, wasRaw, useAfterFree>>
    /\ UNCHANGED collVars

\* lines 163-174
Convert ==
    /\ pc = "convert"
    /\ \E src \in Sources :
           LET file == argv[argc - 1]
               f == bdf_convert(src, gmin, gmax, ascender, flags)
           IN  /\ passed' = [called |-> TRUE, file |-> file, gmin |-> gmin,
                             gmax |-> gmax, ascender |-> ascender,
                             flags |-> flags]
               /\ font' = f
               /\ calls' = calls \cup {"bdf_convert"}
               /\ IF ~f.valid
                  THEN /\ reported' = reported \cup {"Unable to convert"}
                       /\ ret' = 0 - 1
                       /\ pc' = "done"
                       /\ UNCHANGED frees
                  ELSE IF "DISPLAY_FONT" \notin flags
                  THEN /\ frees' = frees + 1
                       /\ ret' = 0
                       /\ pc' = "done"
                       /\ UNCHANGED reported
                  ELSE /\ pc' = "open"
                       /\ UNCHANGED <<frees, ret, reported>>
    /\ UNCHANGED <<argv, i, flags, i2c_address, orientation, ascender, gmin,
                   gmax, inspected, of, gidx, drawn, screens, keyWaits, quit,
                   selected, bus, opens, closes, term, wasRaw, useAfterFree>>
    /\ UNCHANGED collVars

\* lines 176-206: open the bus, select the display, load the user font
OpenI2C ==
    /\ pc = "open"
    /\ \E ok \in BOOLEAN :
           IF ~ok
           THEN /\ calls' = calls \cup {"pi2c_open"}
                /\ reported' = reported \cup {"Unable to open i2c bus"}
                /\ frees' = frees + 1
                /\ ret' = 0 - 1
                /\ pc' = "done"
                /\ UNCHANGED <<bus, opens, selected, of, useAfterFree>>
           ELSE /\ calls' = calls \cup {"pi2c_open", "pi2c_select", "ossd_init",
                                        "ossd_set_user_font", "ossd_select_font",
                                        "ossd_putlx"}
                /\ bus' = "open"
                /\ opens' = opens + 1
                /\ selected' = i2c_address
                /\ of' = [set |-> TRUE, gw |-> font.gw, gh |-> font.bpg,
                          go |-> U8(gmin), gn |-> font.chars % 256]
                /\ useAfterFree' = (useAfterFree \/ frees > 0)
                /\ pc' = "prompt"
                /\ UNCHANGED <<reported, frees, ret>>
    /\ UNCHANGED <<argv, i, flags, i2c_address, orientation, ascender, gmin,
                   gmax, inspected, passed, font, gidx, drawn, screens,
                   keyWaits, quit, closes, term, wasRaw>>
    /\ UNCHANGED collVars

Keys == {"q", "x"}

\* lines 208-214: raw mode, first key wait
FirstPrompt ==
    /\ pc = "prompt"
    /\ term' = "raw"
    /\ wasRaw' = TRUE
    /\ reported' = reported \cup {"Press any key"}
    /\ keyWaits' = keyWaits + 1
    /\ \E key \in Keys :
           IF key = "q"
           THEN /\ quit' = TRUE
                /\ calls' = calls \cup {"stdin_mode", "stdin_getch"}
                /\ pc' = "exit"
           ELSE /\ calls' = calls \cup {"stdin_mode", "stdin_getch",
                                        "ossd_fill_screen"}
                /\ pc' = "loop"
                /\ UNCHANGED quit
    /\ UNCHANGED <<argv, i, flags, i2c_address, orientation, ascender, gmin,
                   gmax, inspected, passed, font, of, gidx, drawn, screens,
                   selected, bus, opens, closes, frees, useAfterFree, ret>>
    /\ UNCHANGED collVars

\* line 197
GlyphLines(o) == (o.gh + 7) \div 8

\* lines 215-231: one iteration of the do-while loop
PreviewPass ==
    /\ pc = "loop"
    /\ \E key \in Keys :
           IF gidx > 0 /\ key = "q"
           THEN /\ keyWaits' = keyWaits + 1
                /\ reported' = reported \cup {"Press any key"}
                /\ calls' = calls \cup {"stdin_getch"}
                /\ quit' = TRUE
                /\ pc' = "exit"
                /\ UNCHANGED <<gidx, drawn, screens, useAfterFree>>
           ELSE LET page == Screenful(0, gidx, GlyphLines(of), of.gw, font.chars)
                IN  /\ keyWaits' = IF gidx > 0 THEN keyWaits + 1 ELSE keyWaits
                    /\ reported' = IF gidx > 0
                                   THEN reported \cup {"Press any key"}
                                   ELSE reported
                    /\ calls' = IF gidx > 0
                                THEN calls \cup {"stdin_getch", "ossd_fill_screen",
                                                 "ossd_putlx"}
                                ELSE calls \cup {"ossd_putlx"}
                    /\ drawn' = drawn \o page
                    /\ gidx' = gidx + Len(page)
                    /\ screens' = screens + 1
                    /\ useAfterFree' = (useAfterFree \/ frees > 0)
                    /\ pc' = IF gidx + Len(page) < font.chars THEN "loop"
                             ELSE "exit"
                    /\ UNCHANGED quit
    /\ UNCHANGED <<argv, i, flags, i2c_address, orientation, ascender, gmin,
                   gmax, inspected, passed, font, of, selected, bus, opens,
                   closes, term, wasRaw, frees, ret>>
    /\ UNCHANGED collVars

\* variant: the bus is left open
ExitNoClose ==
    /\ pc = "exit"
    /\ term' = "can"
    /\ calls' = calls \cup {"stdin_mode"}
    /\ frees' = frees + 1
    /\ ret' = 0
    /\ pc' = "done"
    /\ UNCHANGED <<argv, i, flags, i2c_address, orientation, ascender, gmin,
                   gmax, inspected, passed, font, of, gidx, drawn, screens,
                   keyWaits, quit, selected, bus, opens, closes, wasRaw,
                   useAfterFree, reported>>
    /\ UNCHANGED collVars

\* lines 233-240
Exit ==
    /\ pc = "exit"
    /\ term' = "can"
    /\ calls' = calls \cup {"stdin_mode", "pi2c_close"}
    /\ closes' = closes + 1
    /\ bus' = "closed"
    /\ frees' = frees + 1
    /\ ret' = 0
    /\ pc' = "done"
    /\ UNCHANGED <<argv, i, flags, i2c_address, orientation, ascender, gmin,
                   gmax, inspected, passed, font, of, gidx, drawn, screens,
                   keyWaits, quit, selected, opens, wasRaw, useAfterFree,
                   reported>>
    /\ UNCHANGED collVars

Next ==
    \/ Start
    \/ ArgIter
    \/ Convert
    \/ OpenI2C
    \/ FirstPrompt
    \/ PreviewPass
    \/ Exit

Spec == Init /\ [][Next]_vars

\* the preview on its own: command lines made of the words that reach it
PreviewWords ==
    {Opt_d, Opt_s, Word_all, <<"3", "C">>, <<"5", "0", "-", "4", "0">>,
     <<"x", ".", "b", "d", "f">>}
PreviewInit ==
    /\ argv \in UNION {[1 .. n -> PreviewWords] : n \in 0 .. MaxArgs}
    /\ MainInit
    /\ CollIdle
\* every key wait returns (stdin_getch blocks, it does not fail), and main
\* runs on from there to its return
PreviewSpec ==
    /\ PreviewInit
    /\ [][Next]_vars
    /\ WF_vars(FirstPrompt)
    /\ WF_vars(PreviewPass)
    /\ WF_vars(Exit)

\* ------------------------------------------------------- GlyphCollector
\* Scanner records: a keyword and its argument (the codepoint of ENCODING).
Rec(key, arg) == [key |-> key, arg |-> arg]
Records ==
    {Rec("STARTCHAR", 0), Rec("ENCODING", 65), Rec("BBX", 0),
     Rec("BITMAP", 0), Rec("ROW", 0), Rec("ENDCHAR", 0)}

\* variant: ENCODING and BBX of the previous glyph are not cleared
NewGlyphStale(k) == [cur EXCEPT !.start = k, !.bitmap = FALSE, !.rows = 0]

\* a glyph opened by the record at position k: nothing recorded yet
NewGlyph(k) ==
    [start |-> k, enc |-> FALSE, cp |-> 0, bbx |-> FALSE, bitmap |-> FALSE,
     rows |-> 0]

\* the fields of the glyph under collection, updated by one record
Collect(g, rec) ==
    IF rec.key = "ENCODING" THEN [g EXCEPT !.enc = TRUE, !.cp = rec.arg]
    ELSE IF rec.key = "BBX" THEN [g EXCEPT !.bbx = TRUE]
    ELSE IF rec.key = "BITMAP" THEN [g EXCEPT !.bitmap = TRUE]
    ELSE IF rec.key = "ROW" /\ g.bitmap THEN [g EXCEPT !.rows = @ + 1]
    ELSE g

\* ENDCHAR: a glyph missing ENCODING, BBX or BITMAP is dropped
Complete(g) == g.enc /\ g.bbx /\ g.bitmap
Emit(out, g) ==
    IF Complete(g)
    THEN Append(out, [start |-> g.start, cp |-> g.cp, rows |-> g.rows])
    ELSE out

\* one scanner record consumed (section 4.2).  A required keyword counts
\* when it arrives anywhere between STARTCHAR and ENDCHAR.
Feed ==
    /\ ~eof
    /\ Len(input) < MaxRecords
    /\ \E rec \in Records :
           /\ input' = Append(input, rec)
           /\ IF cstate = "Header"
              THEN IF rec.key = "STARTCHAR"
                   THEN /\ cstate' = "InGlyph"
                        /\ cur' = NewGlyph(Len(input) + 1)
                        /\ UNCHANGED emitted
                   ELSE UNCHANGED <<cstate, cur, emitted>>
              ELSE IF rec.key = "ENDCHAR"
                   THEN /\ cstate' = "Header"
                        /\ emitted' = Emit(emitted, cur)
                        /\ UNCHANGED cur
                   ELSE /\ cur' = Collect(cur, rec)
                        /\ cstate' = IF rec.key = "BITMAP" THEN "ReadingRows"
                                     ELSE cstate
                        /\ UNCHANGED emitted
    /\ UNCHANGED <<eof, cresult>>
    /\ UNCHANGED mainVars

\* end of input: fatal inside a glyph, otherwise the glyph list is handed on
EndOfInput ==
    /\ ~eof
    /\ eof' = TRUE
    /\ cresult' = IF cstate \in {"InGlyph", "ReadingRows"} THEN "MalformedInput"
                  ELSE "collected"
    /\ UNCHANGED <<cstate, input, cur, emitted>>
    /\ UNCHANGED mainVars

CollInit ==
    /\ argv = <<>>
    /\ MainInit
    /\ CollIdle

CollNext ==
    \/ Feed
    \/ EndOfInput

SpecCollector == CollInit /\ [][CollNext]_vars

\* ===================================================== GlyphCollector claim
SetMax(S) == CHOOSE x \in S : \A y \in S : y <= x
Markers(inp, lo, hi) ==
    {k \in lo .. hi : inp[k].key \in {"STARTCHAR", "ENDCHAR"}}
\* position s opens a span: a STARTCHAR met outside any glyph
OpensSpan(inp, s) ==
    /\ inp[s].key = "STARTCHAR"
    /\ \/ Markers(inp, 1, s - 1) = {}
       \/ inp[SetMax(Markers(inp, 1, s - 1))].key = "ENDCHAR"
Ends(inp, s) == {e \in (s + 1) .. Len(inp) : inp[e].key = "ENDCHAR"}
Inside(inp, s, key) ==
    {k \in (s + 1) .. (SetMin(Ends(inp, s)) - 1) : inp[k].key = key}
\* the closed spans that contain ENCODING, BBX and BITMAP
GoodSpans(inp) ==
    {s \in DOMAIN inp :
        /\ OpensSpan(inp, s)
        /\ Ends(inp, s) # {}
        /\ Inside(inp, s, "ENCODING") # {}
        /\ Inside(inp, s, "BBX") # {}
        /\ Inside(inp, s, "BITMAP") # {}}
ClosedSpans(inp) == {s \in DOMAIN inp : OpensSpan(inp, s) /\ Ends(inp, s) # {}}
SpanGlyph(inp, s) ==
    [start |-> s,
     cp |-> inp[SetMax(Inside(inp, s, "ENCODING"))].arg,
     rows |-> Cardinality({k \in Inside(inp, s, "ROW") :
                              k > SetMin(Inside(inp, s, "BITMAP"))})]
RECURSIVE InOrder(_, _)
InOrder(inp, S) ==
    IF S = {} THEN <<>>
    ELSE <<SpanGlyph(inp, SetMin(S))>> \o InOrder(inp, S \ {SetMin(S)})
OpenAtEnd(inp) ==
    /\ Markers(inp, 1, Len(inp)) # {}
    /\ inp[SetMax(Markers(inp, 1, Len(inp)))].key = "STARTCHAR"

DeviceCalls ==
    {"pi2c_open", "pi2c_select", "pi2c_close", "ossd_init",
     "ossd_set_user_font", "ossd_select_font", "ossd_putlx",
     "ossd_fill_screen", "stdin_mode", "stdin_getch"}
Converted == passed.called /\ font.valid
Failed == passed.called /\ ~font.valid

\* C1: the first-codepoint offset handed to the display driver is the
\* lowest codepoint retained by filtering.
C1_OffsetIsLowestRetained == of.set => of.go = font.first

\* C2: when bdf_convert yields no font, main reports the failure, returns a
\* non-zero status and does nothing else: no I2C or display call, no
\* terminal mode change, no key wait.
C2_FailedConversionStops ==
    Failed =>
        /\ pc = "done"
        /\ ret # 0
        /\ "Unable to convert" \in reported
        /\ calls \cap DeviceCalls = {}
        /\ opens = 0 /\ closes = 0 /\ selected = NoAddress /\ ~of.set
        /\ term = "can" /\ ~wasRaw
        /\ keyWaits = 0 /\ drawn = <<>>
        /\ frees = 0

\* a conversion failed although display was requested
C2_Witness == Failed /\ pc = "done" /\ "DISPLAY_FONT" \in flags

\* C3: gmin <= gmax after every iteration of the argument loop and in the
\* range handed to bdf_convert.
C3_RangeNormalized ==
    /\ U32Le(gmin, gmax)
    /\ passed.called => U32Le(passed.gmin, passed.gmax)

\* subset 50-40 was given and the range 40..50 reached bdf_convert
C3_Witness ==
    /\ passed.called
    /\ Len(argv) >= 3
    /\ argv[Len(argv) - 1] = <<"5", "0", "-", "4", "0">>
    /\ argv[Len(argv) - 2] = Opt_s
    /\ passed.gmin = U32(40)
    /\ passed.gmax = U32(50)

\* C5: the glyph count handed to the display driver is the retained glyph
\* count, and every glyph index the preview draws is below it.
C5_CountCoversDrawnGlyphs ==
    of.set =>
        /\ of.gn = font.chars
        /\ \A k \in DOMAIN drawn : drawn[k] < of.gn

\* no display option is followed by an address of the user's
NoAddressGiven ==
    \A k \in DOMAIN argv :
        argv[k] \in {Opt_d, Word_display} =>
            \/ k + 1 >= Len(argv)
            \/ argv[k + 1] \in OptionWords

\* C6: the address selected on the bus is within 0x01..0x77, and it is 0x3C
\* when the word after display is the file operand or another option word.
C6_DefaultAddress ==
    selected # NoAddress =>
        /\ selected \in 1 .. (AddressLimit - 1)
        /\ NoAddressGiven => selected = DefaultAddress

\* C7: with no 'q', the preview draws every glyph index 0..chars-1 once, in
\* ascending order, one key wait before each screenful, and ends; after a
\* 'q' nothing more is drawn.
C7_PreviewDrawsAllOnce ==
    /\ [](of.set /\ ~quit /\ pc = "done" =>
              /\ drawn = [k \in 1 .. font.chars |-> k - 1]
              /\ keyWaits = screens)
    /\ [][screens' # screens => keyWaits' = screens' /\ Len(drawn') > Len(drawn)]_vars
    /\ [][quit => drawn' = drawn]_vars
    /\ [][quit' /\ ~quit => drawn' = drawn]_vars
    /\ (of.set ~> pc = "done")

\* a preview of several screenfuls ran to its end
C7_Witness ==
    /\ of.set /\ ~quit /\ pc = "done"
    /\ screens >= 3
    /\ Len(drawn) = font.chars

\* C8: once bdf_convert has returned a font, it is freed exactly once before
\* main returns and never used afterwards; a terminal put into raw mode is
\* back in canonical mode; an opened bus is closed, and none is closed that
\* was not opened.
C8_ResourcesReleased ==
    /\ frees <= 1
    /\ ~useAfterFree
    /\ closes <= opens
    /\ (frees = 1 => pc = "done")
    /\ Converted /\ pc = "done" =>
           /\ frees = 1
           /\ wasRaw => term = "can"
           /\ opens > 0 => bus = "closed" /\ closes = opens

\* 'q' at a later prompt, after a screenful was drawn
C8_Witness ==
    /\ Converted /\ pc = "done"
    /\ quit /\ drawn # <<>> /\ wasRaw /\ opens = 1

\* C9: the argument loop reads only argv[1..argc-1].
C9_OnlyArgumentsRead == inspected \subseteq 1 .. (argc - 1)

FlagBits ==
    {"BDF_HEADER", "BDF_VERBOSE", "BDF_GPL", "BDF_NATIVE", "BDF_ROTATE",
     "BDF_FLIP", "BDF_DROPLAST"}
ChangedSettings ==
    {b \in FlagBits : (b \in flags') # (b \in flags)}
        \cup (IF ascender' # ascender THEN {"ascender"} ELSE {})
        \cup (IF <<gmin', gmax'>> # <<gmin, gmax>> THEN {"range"} ELSE {})
        \cup (IF orientation' # orientation THEN {"updown"} ELSE {})
        \cup (IF ("DISPLAY_FONT" \in flags') # ("DISPLAY_FONT" \in flags)
                 \/ i2c_address' # i2c_address
              THEN {"display"} ELSE {})

\* C10: an option word changes at most one setting; -l leaves DropLast
\* clear and -a leaves the codepoint range alone.
C10_OneSettingPerOption ==
    [][pc = "args" /\ pc' # "crashed" =>
           /\ Cardinality(ChangedSettings) <= 1
           /\ argv[i] = Opt_l => "BDF_DROPLAST" \notin flags' \ flags
           /\ argv[i] = Opt_a => <<gmin', gmax'>> = <<gmin, gmax>>]_vars

====
